---- MODULE Spec2Model ----
(***************************************************************************)
(* Model of the tetrahedralization bridge in                               *)
(* src-tauri/src/cpp/bindings.cpp: tetrahedralize_mesh and                 *)
(* free_mesh_result, over an explicit heap of blocks.  The meshing kernel  *)
(* (tetgenio, tetgenbehavior, tetrahedralize) is an opaque collaborator:   *)
(* its outputs and faults are nondeterministic choices.                    *)
(***************************************************************************)
EXTENDS Integers, Sequences, FiniteSets, TLC

\* ---------------------------------------------------------------- bounds
MaxN == 1          \* largest num_vertices a caller passes
MaxF == 2          \* largest num_faces a caller passes
MaxP == 1          \* largest point count the kernel reports
MaxT == 1          \* largest tetrahedron count the kernel reports
MaxCalls == 1      \* tetrahedralize_mesh calls in one run
MaxFrees == 3      \* free_mesh_result calls in one run
MaxMut == 1        \* caller-side writes to its input buffers in one run

\* ------------------------------------------------------- values, pointers
NULL == 0
NUL == "NUL"                      \* the string terminator '\0'
Uninit == -1                      \* a field no statement has assigned yet
InVerticesPtr == 1                \* the caller's block behind in_vertices
InFacesPtr == 2                   \* the caller's block behind in_faces
Slack == 1                        \* caller's blocks extend this far past 3*count
WsBase == 100                     \* addresses above it: the Kernel Working Set

CallerPointsLen == 3 * MaxN + Slack
CallerFacesLen == 3 * MaxF + Slack

\* C strings a caller passes as `options`: a null pointer, "", "pqz", "pa"
NullString == [null |-> TRUE, chars |-> <<NUL>>]
CString(cs) == [null |-> FALSE, chars |-> cs \o <<NUL>>]
DefaultLiteral == <<"p", "q", "z", NUL>>
OptionArgs == {NullString, CString(<<>>), CString(<<"p", "q", "z">>), CString(<<"p", "a">>)}

\* kernel results: element i of an output list
KernelPoint(i) == 50 + i
KernelTet(i) == 70 + i

VARIABLES pc, heap, ws, args, in, out, b, result, i, exc, reads, klog, kout,
          ret, handles, ncalls, nfrees, nmut, ub

vars == <<pc, heap, ws, args, in, out, b, result, i, exc, reads, klog, kout,
          ret, handles, ncalls, nfrees, nmut, ub>>

\* ------------------------------------------------------------------ heap
Block(kind, call, data) ==
    [kind |-> kind, call |-> call, data |-> data, live |-> TRUE, frees |-> 0]

NextPtr == Len(heap) + 1

\* operator new / new[] for a block that outlives the call
New(h, kind, data) == Append(h, Block(kind, ncalls, data))

\* operator new / new[] for a block of the Kernel Working Set (tetgenio in,
\* out and what hangs off them): it gets the next address above WsBase
WsPtr(w) == WsBase + Len(w) + 1
WsNew(w, kind, data) == Append(w, [kind |-> kind, data |-> data])
WsAt(p) == ws[p - WsBase]

\* an array of n elements none of which has been assigned
UninitArray(n) == [k \in 1..n |-> Uninit]

\* operator delete / delete[]; p outside the heap is a wild pointer
Delete(h, p) ==
    IF p \in 1..Len(h) THEN [h EXCEPT ![p].live = FALSE, ![p].frees = @ + 1] ELSE h

\* ~tetgenio for `in` and `out` (and ~tetgenbehavior) when the try block is
\* left: every block of the Kernel Working Set is released
DestroyWorkingSet(w) == <<>>

\* ------------------------------------------------------- locals of a call
\* tetgenio in, out;  (line 17) -- no field is relied on before it is assigned
NewTetgenio ==
    [firstnumber |-> Uninit, numberofpoints |-> Uninit, pointlist |-> Uninit,
     numberoffacets |-> Uninit, facetlist |-> Uninit, facetmarkerlist |-> Uninit,
     numberofholes |-> Uninit, holelist |-> Uninit,
     numberofregions |-> Uninit, regionlist |-> Uninit,
     numberoftetrahedra |-> Uninit, tetrahedronlist |-> Uninit]

NoArgs == [num_vertices |-> 0, num_faces |-> 0, options |-> NullString,
           in_vertices |-> InVerticesPtr, in_faces |-> InFacesPtr]
NoKernelOutput == [valid |-> FALSE, P |-> 0, T |-> 0, points |-> <<>>, tets |-> <<>>]
NoReturn == [kind |-> "none", val |-> NULL]

\* struct facet / struct polygon elements of new[]-ed arrays (no constructor)
UninitFacet == [numberofpolygons |-> Uninit, polygonlist |-> Uninit,
                numberofholes |-> Uninit, holelist |-> Uninit]
UninitPolygon == [numberofvertices |-> Uninit, vertexlist |-> Uninit]

\* MeshResult* result = new MeshResult();  value-initialised (line 65)
NewMeshResult == [points |-> NULL, tetrahedra |-> NULL, num_points |-> 0, num_tetrahedra |-> 0]

Init ==
    /\ pc = "idle"
    /\ heap = << Block("caller_points", 0, [k \in 1..CallerPointsLen |-> 10 + (k - 1)]),
                 Block("caller_faces", 0, [k \in 1..CallerFacesLen |-> 20 + (k - 1)]) >>
    /\ ws = <<>>
    /\ args = NoArgs
    /\ in = NewTetgenio
    /\ out = NewTetgenio
    /\ b = <<>>
    /\ result = NULL
    /\ i = 0
    /\ exc = "none"
    /\ reads = {}
    /\ klog = <<>>
    /\ kout = NoKernelOutput
    /\ ret = NoReturn
    /\ handles = <<>>
    /\ ncalls = 0
    /\ nfrees = 0
    /\ nmut = 0
    /\ ub = FALSE

\* ------------------------------------------------- tetrahedralize_mesh
\* a throw inside the try block: control goes to the handler of line 83
Throw(e) ==
    /\ pc' = "catch"
    /\ exc' = e

\* entry (lines 14-17): the caller passes its two blocks, counts and options
Call(N, F, opt) ==
    /\ pc = "idle"
    /\ ncalls < MaxCalls
    /\ ncalls' = ncalls + 1
    /\ args' = [num_vertices |-> N, num_faces |-> F, options |-> opt,
                in_vertices |-> InVerticesPtr, in_faces |-> InFacesPtr]
    /\ in' = NewTetgenio
    /\ out' = NewTetgenio
    /\ b' = <<>>
    /\ result' = NULL
    /\ i' = 0
    /\ exc' = "none"
    /\ reads' = {}
    /\ klog' = <<>>
    /\ kout' = NoKernelOutput
    /\ ret' = NoReturn
    /\ pc' = "new_pointlist"
    /\ UNCHANGED <<heap, ws, handles, nfrees, nmut, ub>>

\* lines 20-22
NewPointlist ==
    /\ pc = "new_pointlist"
    /\ \/ /\ args.num_vertices * 3 >= 0
          /\ ws' = WsNew(ws, "in_pointlist", UninitArray(args.num_vertices * 3))
          /\ in' = [in EXCEPT !.firstnumber = 0,
                              !.numberofpoints = args.num_vertices,
                              !.pointlist = WsPtr(ws)]
          /\ pc' = "copy_points"
          /\ exc' = exc
       \/ /\ args.num_vertices * 3 >= 0
          /\ in' = [in EXCEPT !.firstnumber = 0, !.numberofpoints = args.num_vertices]
          /\ Throw("bad_alloc")
          /\ ws' = ws
       \/ /\ args.num_vertices * 3 < 0
          /\ in' = [in EXCEPT !.firstnumber = 0, !.numberofpoints = args.num_vertices]
          /\ Throw("bad_array_new_length")
          /\ ws' = ws
    /\ UNCHANGED <<heap, args, out, b, result, i, reads, klog, kout, ret, handles,
                   ncalls, nfrees, nmut, ub>>

\* (faulty variant) the loop of line 23 with the test i <= num_vertices * 3
PointLoopIndicesInclusive(num_vertices) == 0 .. (num_vertices * 3)

\* the indices i of the loop of line 23
PointLoopIndices(num_vertices) == 0 .. (num_vertices * 3 - 1)

\* lines 23-25: in.pointlist[i] = (REAL)in_vertices[i]
CopyPoints ==
    /\ pc = "copy_points"
    /\ LET idx == PointLoopIndices(args.num_vertices)
           src == heap[args.in_vertices].data
           dst == WsAt(in.pointlist).data
       IN /\ ws' = [ws EXCEPT ![in.pointlist - WsBase].data =
                      [k \in 1..Len(dst) |-> IF (k - 1) \in idx /\ k <= Len(src)
                                             THEN src[k] ELSE dst[k]]]
          /\ reads' = reads \cup {<<args.in_vertices, k>> : k \in idx}
          /\ ub' = (ub \/ \E k \in idx : k >= Len(dst) \/ k >= Len(src))
    /\ pc' = "new_facetlist"
    /\ UNCHANGED <<heap, args, in, out, b, result, i, exc, klog, kout, ret, handles,
                   ncalls, nfrees, nmut>>

\* lines 28-34, and the loop test of line 36 for i = 0
NewFacetlist ==
    /\ pc = "new_facetlist"
    /\ \/ /\ args.num_faces >= 0
          /\ ws' = WsNew(ws, "in_facetlist", [k \in 1..args.num_faces |-> UninitFacet])
          /\ in' = [in EXCEPT !.numberoffacets = args.num_faces,
                              !.facetlist = WsPtr(ws),
                              !.facetmarkerlist = NULL,
                              !.numberofholes = 0,
                              !.holelist = NULL,
                              !.numberofregions = 0,
                              !.regionlist = NULL]
          /\ i' = 0
          /\ pc' = IF 0 < args.num_faces THEN "new_polygonlist" ELSE "parse_commandline"
          /\ exc' = exc
       \/ /\ args.num_faces >= 0
          /\ in' = [in EXCEPT !.numberoffacets = args.num_faces]
          /\ Throw("bad_alloc")
          /\ UNCHANGED <<ws, i>>
       \/ /\ args.num_faces < 0
          /\ in' = [in EXCEPT !.numberoffacets = args.num_faces]
          /\ Throw("bad_array_new_length")
          /\ UNCHANGED <<ws, i>>
    /\ UNCHANGED <<heap, args, out, b, result, reads, klog, kout, ret, handles,
                   ncalls, nfrees, nmut, ub>>

\* lines 37-40 of iteration i: f->polygonlist = new tetgenio::polygon[1]
NewPolygonlist ==
    /\ pc = "new_polygonlist"
    /\ \/ /\ LET w1 == WsNew(ws, "in_polygonlist",
                             <<[UninitPolygon EXCEPT !.numberofvertices = 3]>>)
             IN ws' = [w1 EXCEPT ![in.facetlist - WsBase].data[i + 1] =
                          [@ EXCEPT !.numberofpolygons = 1, !.polygonlist = WsPtr(ws)]]
          /\ pc' = "new_vertexlist"
          /\ exc' = exc
       \/ /\ ws' = [ws EXCEPT ![in.facetlist - WsBase].data[i + 1].numberofpolygons = 1]
          /\ Throw("bad_alloc")
    /\ UNCHANGED <<heap, args, in, out, b, result, i, reads, klog, kout, ret, handles,
                   ncalls, nfrees, nmut, ub>>

\* (faulty variant) lines 43-45 indexing in_faces with i instead of i*3
FacetReadIndicesUnscaled(j) == <<j, j + 1, j + 2>>

\* lines 43-45: the three elements of in_faces read in iteration j, in order
FacetReadIndices(j) == <<j * 3, j * 3 + 1, j * 3 + 2>>

\* lines 41-49 of iteration i, i++ and the loop test of line 36
NewVertexlist ==
    /\ pc = "new_vertexlist"
    /\ \/ /\ LET src == heap[args.in_faces].data
                 idx == FacetReadIndices(i)
                 poly == WsAt(in.facetlist).data[i + 1].polygonlist
                 w1 == WsNew(ws, "in_vertexlist",
                             [k \in 1..3 |-> IF idx[k] + 1 <= Len(src)
                                             THEN src[idx[k] + 1] ELSE Uninit])
                 w2 == [w1 EXCEPT ![poly - WsBase].data[1].vertexlist = WsPtr(ws)]
             IN /\ ws' = [w2 EXCEPT ![in.facetlist - WsBase].data[i + 1] =
                             [@ EXCEPT !.numberofholes = 0, !.holelist = NULL]]
                /\ reads' = reads \cup {<<args.in_faces, idx[k]>> : k \in 1..3}
                /\ ub' = (ub \/ \E k \in 1..3 : idx[k] >= Len(src))
          /\ i' = i + 1
          /\ pc' = IF i + 1 < args.num_faces THEN "new_polygonlist" ELSE "parse_commandline"
          /\ exc' = exc
       \/ /\ Throw("bad_alloc")
          /\ UNCHANGED <<ws, reads, ub, i>>
    /\ UNCHANGED <<heap, args, in, out, b, result, klog, kout, ret, handles,
                   ncalls, nfrees, nmut>>

\* (faulty variant) lines 56-60 without the test for the empty string
CommandlineArgNullOnly(options) ==
    IF ~options.null
    THEN [origin |-> "caller", chars |-> options.chars]
    ELSE [origin |-> "literal", chars |-> <<"p", "q", "z", NUL>>]

\* lines 56-60: the string handed to b.parse_commandline
CommandlineArg(options) ==
    IF ~options.null /\ options.chars[1] # NUL
    THEN [origin |-> "caller", chars |-> options.chars]
    ELSE [origin |-> "literal", chars |-> DefaultLiteral]

\* lines 52-60: tetgenbehavior b; b.parse_commandline(...), which may throw
ParseCommandline ==
    /\ pc = "parse_commandline"
    /\ LET arg == CommandlineArg(args.options)
       IN /\ klog' = Append(klog, [fn |-> "parse_commandline",
                                   origin |-> arg.origin, chars |-> arg.chars])
          /\ \/ /\ b' = arg.chars
                /\ pc' = "tetrahedralize"
                /\ exc' = exc
             \/ /\ b' = b
                /\ Throw("kernel")
    /\ UNCHANGED <<heap, ws, args, in, out, result, i, reads, kout, ret, handles,
                   ncalls, nfrees, nmut, ub>>

\* line 62: tetrahedralize(&b, &in, &out); the kernel fills `out` with P
\* points and T tetrahedra in blocks of its own, or throws
Tetrahedralize ==
    /\ pc = "tetrahedralize"
    /\ klog' = Append(klog, [fn |-> "tetrahedralize", origin |-> "in", chars |-> <<>>])
    /\ \/ \E P \in 0..MaxP, T \in 0..MaxT :
            LET pts == [k \in 1..(3 * P) |-> KernelPoint(k - 1)]
                tets == [k \in 1..(4 * T) |-> KernelTet(k - 1)]
                w1 == IF P > 0 THEN WsNew(ws, "out_pointlist", pts) ELSE ws
                pp == IF P > 0 THEN WsPtr(ws) ELSE NULL
                w2 == IF T > 0 THEN WsNew(w1, "out_tetrahedronlist", tets) ELSE w1
                tp == IF T > 0 THEN WsPtr(w1) ELSE NULL
            IN /\ ws' = w2
               /\ out' = [out EXCEPT !.numberofpoints = P, !.pointlist = pp,
                                     !.numberoftetrahedra = T, !.tetrahedronlist = tp]
               /\ kout' = [valid |-> TRUE, P |-> P, T |-> T, points |-> pts, tets |-> tets]
               /\ pc' = "new_result"
               /\ exc' = exc
       \/ /\ Throw("kernel")
          /\ UNCHANGED <<ws, out, kout>>
    /\ UNCHANGED <<heap, args, in, b, result, i, reads, ret, handles,
                   ncalls, nfrees, nmut, ub>>

\* lines 71 and 76: which statement follows once the points part is settled
AfterPoints == IF out.numberoftetrahedra > 0 THEN "new_tetrahedra" ELSE "return"
AfterResult == IF out.numberofpoints > 0 THEN "new_points" ELSE AfterPoints

\* lines 65-69
NewResult ==
    /\ pc = "new_result"
    /\ \/ /\ heap' = New(heap, "MeshResult",
                         [NewMeshResult EXCEPT !.num_points = out.numberofpoints,
                                               !.num_tetrahedra = out.numberoftetrahedra])
          /\ result' = NextPtr
          /\ pc' = AfterResult
          /\ exc' = exc
       \/ /\ Throw("bad_alloc")
          /\ UNCHANGED <<heap, result>>
    /\ UNCHANGED <<ws, args, in, out, b, i, reads, klog, kout, ret, handles,
                   ncalls, nfrees, nmut, ub>>

\* std::memcpy(dst, src, n * sizeof(element)): the first n elements of src
Memcpy(src, n) == [k \in 1..n |-> src[k]]

\* (faulty variant) line 77 sized like line 72
ResultTetrahedraLen3(T) == T * 3

\* lines 72 and 77: the element counts of the two new[] expressions
ResultPointsLen(P) == P * 3
ResultTetrahedraLen(T) == T * 4

\* (faulty variant) lines 71-74 handing the kernel's block over instead of copying it
NewPointsHandOff ==
    /\ pc = "new_points"
    /\ heap' = [heap EXCEPT ![result].data.points = out.pointlist]
    /\ pc' = AfterPoints
    /\ UNCHANGED <<ws, args, in, out, b, result, i, exc, reads, klog, kout, ret, handles,
                   ncalls, nfrees, nmut, ub>>

\* lines 71-74
NewPoints ==
    /\ pc = "new_points"
    /\ \/ /\ LET n == ResultPointsLen(out.numberofpoints)
                 h1 == New(heap, "result_points", UninitArray(n))
                 h2 == [h1 EXCEPT ![result].data.points = NextPtr]
             IN heap' = [h2 EXCEPT ![NextPtr].data = Memcpy(WsAt(out.pointlist).data, n)]
          /\ pc' = AfterPoints
          /\ exc' = exc
       \/ /\ Throw("bad_alloc")
          /\ heap' = heap
    /\ UNCHANGED <<ws, args, in, out, b, result, i, reads, klog, kout, ret, handles,
                   ncalls, nfrees, nmut, ub>>

\* lines 76-79
NewTetrahedra ==
    /\ pc = "new_tetrahedra"
    /\ \/ /\ LET n == ResultTetrahedraLen(out.numberoftetrahedra)
                 h1 == New(heap, "result_tetrahedra", UninitArray(n))
                 h2 == [h1 EXCEPT ![result].data.tetrahedra = NextPtr]
             IN heap' = [h2 EXCEPT ![NextPtr].data = Memcpy(WsAt(out.tetrahedronlist).data, n)]
          /\ pc' = "return"
          /\ exc' = exc
       \/ /\ Throw("bad_alloc")
          /\ heap' = heap
    /\ UNCHANGED <<ws, args, in, out, b, result, i, reads, klog, kout, ret, handles,
                   ncalls, nfrees, nmut, ub>>

\* the locals of the call are gone once it has returned
LeaveCall ==
    /\ pc' = "idle"
    /\ in' = NewTetgenio
    /\ out' = NewTetgenio
    /\ b' = <<>>
    /\ result' = NULL
    /\ i' = 0
    /\ exc' = "none"
    /\ args' = NoArgs
    /\ reads' = {}
    /\ klog' = <<>>
    /\ kout' = NoKernelOutput

\* line 81: return result; b, out and in are destroyed on the way out
Return ==
    /\ pc = "return"
    /\ ret' = [kind |-> "value", val |-> result]
    /\ ws' = DestroyWorkingSet(ws)
    /\ heap' = heap
    /\ handles' = (result :> [released |-> 0, call |-> ncalls, snap |-> kout,
                              inputs |-> <<heap[args.in_vertices].data,
                                           heap[args.in_faces].data>>]) @@ handles
    /\ LeaveCall
    /\ UNCHANGED <<ncalls, nfrees, nmut, ub>>

\* (faulty variant) line 83 as catch (const std::bad_alloc&)
CatchesBadAlloc(e) == e \in {"bad_alloc", "bad_array_new_length"}

\* line 83: catch (...) matches an exception of any type
Catches(e) == TRUE

\* lines 83-86: the stack is unwound (b, out and in are destroyed) and the
\* handler returns nullptr; an exception no handler matches leaves the call
Catch ==
    /\ pc = "catch"
    /\ ret' = IF Catches(exc) THEN [kind |-> "value", val |-> NULL]
                              ELSE [kind |-> "escaped", val |-> NULL]
    /\ ws' = DestroyWorkingSet(ws)
    /\ heap' = heap
    /\ LeaveCall
    /\ UNCHANGED <<handles, ncalls, nfrees, nmut, ub>>

\* ---------------------------------------------------- free_mesh_result
\* what reading result->points and result->tetrahedra can yield: the fields
\* of a live record; anything the allocator left there once the record is
\* freed; a fault when result is the null pointer
Deref(r) ==
    IF r = NULL THEN {[points |-> NULL, tetrahedra |-> NULL, fault |-> TRUE]}
    ELSE IF heap[r].live
         THEN {[points |-> heap[r].data.points,
                tetrahedra |-> heap[r].data.tetrahedra, fault |-> FALSE]}
         ELSE {[points |-> pp, tetrahedra |-> tp, fault |-> TRUE] :
                  pp \in {NULL, heap[r].data.points},
                  tp \in {NULL, heap[r].data.tetrahedra}}

\* (faulty variant) lines 91-93 without line 92
DeletedByWithoutTetrahedra(r, f) ==
    (IF f.points # NULL THEN <<f.points>> ELSE <<>>) \o <<r>>

\* lines 91-93: the pointers handed to delete[] / delete, in order
DeletedBy(r, f) ==
    (IF f.points # NULL THEN <<f.points>> ELSE <<>>)
    \o (IF f.tetrahedra # NULL THEN <<f.tetrahedra>> ELSE <<>>)
    \o <<r>>

RECURSIVE DeleteSeq(_, _)
DeleteSeq(h, ps) ==
    IF ps = <<>> THEN h
    ELSE DeleteSeq(IF Head(ps) = NULL THEN h ELSE Delete(h, Head(ps)), Tail(ps))

\* lines 91-93 executed with result = r
FreeBody(r) ==
    \E f \in Deref(r) :
        LET dels == DeletedBy(r, f)
        IN /\ heap' = DeleteSeq(heap, dels)
           /\ ub' = (ub \/ f.fault
                        \/ \E k \in 1..Len(dels) :
                              /\ dels[k] # NULL
                              /\ (dels[k] \in 1..Len(heap) => ~heap[dels[k]].live))

\* the caller passes r, a null pointer or a Result it was handed earlier
FreeCall(r) ==
    /\ pc = "idle"
    /\ nfrees < MaxFrees
    /\ r \in {NULL} \cup DOMAIN handles
    /\ nfrees' = nfrees + 1
    /\ handles' = [p \in DOMAIN handles |->
                     IF p = r THEN [handles[p] EXCEPT !.released = @ + 1] ELSE handles[p]]
    /\ UNCHANGED <<pc, ws, args, in, out, b, result, i, exc, reads, klog, kout, ret,
                   ncalls, nmut>>

\* (faulty variant) lines 89-95 without the test of line 90
free_mesh_result_unchecked(r) ==
    /\ FreeCall(r)
    /\ FreeBody(r)

\* (faulty variant) lines 89-95 skipping a Result that was released before
free_mesh_result_tracked(r) ==
    /\ FreeCall(r)
    /\ IF r # NULL /\ heap[r].live THEN FreeBody(r) ELSE UNCHANGED <<heap, ub>>

\* lines 89-95
free_mesh_result(r) ==
    /\ FreeCall(r)
    /\ IF r # NULL THEN FreeBody(r) ELSE UNCHANGED <<heap, ub>>

\* --------------------------------------------------------------- caller
\* between calls the caller overwrites element 0 of one of its input blocks
MutateInput(p) ==
    /\ pc = "idle"
    /\ nmut < MaxMut
    /\ nmut' = nmut + 1
    /\ heap' = [heap EXCEPT ![p].data[1] = @ + 100]
    /\ UNCHANGED <<pc, ws, args, in, out, b, result, i, exc, reads, klog, kout, ret,
                   handles, ncalls, nfrees, ub>>

\* one call of tetrahedralize_mesh, statement by statement
CallStep ==
    \/ NewPointlist
    \/ CopyPoints
    \/ NewFacetlist
    \/ NewPolygonlist
    \/ NewVertexlist
    \/ ParseCommandline
    \/ Tetrahedralize
    \/ NewResult
    \/ NewPoints
    \/ NewTetrahedra
    \/ Return
    \/ Catch

\* calls of tetrahedralize_mesh with every combination of arguments
Next ==
    \/ \E N \in -1..MaxN, F \in -1..MaxF, opt \in OptionArgs : Call(N, F, opt)
    \/ CallStep

Spec == Init /\ [][Next]_vars

\* a caller that calls tetrahedralize_mesh, releases what it was handed (or
\* null) in any order and any number of times, and overwrites its inputs
NextLife ==
    \/ \E N \in {-1, MaxN}, F \in {-1, MaxF} : Call(N, F, NullString)
    \/ CallStep
    \/ \E r \in 0..Len(heap) : free_mesh_result(r)
    \/ MutateInput(InVerticesPtr)
    \/ MutateInput(InFacesPtr)

SpecLife == Init /\ [][NextLife]_vars

\* ================================================================ claims
Failure == [kind |-> "value", val |-> NULL]
ReturnedResult == ret.kind = "value" /\ ret.val # NULL
IsHeapPtr(p) == p \in 1..Len(heap)

\* C1: every fault raised inside a call (by the option parser, by the
\* meshing routine, by any allocation of the bridge) takes the call to its
\* handler, and the call then returns the null sentinel; nothing escapes.
C1_FaultsBecomeFailure ==
    [][/\ (exc' # "none" => pc' = "catch")
       /\ (exc # "none" => pc' = "idle" /\ ret' = Failure)
       /\ ret'.kind # "escaped"]_vars

\* a call has ended returning null after a fault
C1_Witness == pc = "idle" /\ ncalls > 0 /\ ret = Failure

\* C2: a returned value is null or a MeshResult whose counts are the
\* kernel's P and T, whose points block has exactly 3*P elements when P > 0
\* and is null when P = 0, and whose tetrahedra block has exactly 4*T
\* elements when T > 0 and is null when T = 0.
C2_ResultShape ==
    ReturnedResult =>
        LET r == heap[ret.val].data
            k == handles[ret.val].snap
        IN /\ heap[ret.val].kind = "MeshResult"
           /\ k.valid
           /\ r.num_points = k.P
           /\ r.num_tetrahedra = k.T
           /\ IF k.P > 0
              THEN /\ IsHeapPtr(r.points)
                   /\ heap[r.points].kind = "result_points"
                   /\ heap[r.points].live
                   /\ Len(heap[r.points].data) = 3 * k.P
              ELSE r.points = NULL
           /\ IF k.T > 0
              THEN /\ IsHeapPtr(r.tetrahedra)
                   /\ heap[r.tetrahedra].kind = "result_tetrahedra"
                   /\ heap[r.tetrahedra].live
                   /\ Len(heap[r.tetrahedra].data) = 4 * k.T
              ELSE r.tetrahedra = NULL

\* a Result with tetrahedra and without points has been returned
C2_Witness ==
    /\ ReturnedResult
    /\ heap[ret.val].data.num_tetrahedra > 0
    /\ heap[ret.val].data.num_points = 0

\* the blocks a Result record r points to
BuffersOf(r) == {heap[r].data.points, heap[r].data.tetrahedra} \ {NULL}

\* C3: the buffers of a Result that was returned and not yet released are
\* blocks allocated for it by its call, none of them a block of the Kernel
\* Working Set or of the caller, and they hold the kernel's output as it was
\* when the kernel returned -- whatever happens to the working set and to
\* the caller's input blocks afterwards.
C3_DeepCopy ==
    \A h \in DOMAIN handles :
        handles[h].released = 0 =>
            LET r == heap[h].data
                k == handles[h].snap
            IN /\ \A p \in BuffersOf(h) :
                    /\ IsHeapPtr(p)
                    /\ p \notin {InVerticesPtr, InFacesPtr}
                    /\ heap[p].call = handles[h].call
                    /\ heap[p].live
                    /\ \A g \in DOMAIN handles : g # h => p \notin BuffersOf(g)
               /\ r.points # r.tetrahedra \/ r.points = NULL
               /\ k.P > 0 => r.points # NULL /\ heap[r.points].data = k.points
               /\ k.T > 0 => r.tetrahedra # NULL /\ heap[r.tetrahedra].data = k.tets

\* a Result with both buffers is held while the working set is gone and the
\* caller has overwritten its points since the call returned
C3_Witness ==
    \E h \in DOMAIN handles :
        /\ pc = "idle"
        /\ handles[h].released = 0
        /\ handles[h].snap.P > 0
        /\ handles[h].snap.T > 0
        /\ ws = <<>>
        /\ heap[InVerticesPtr].data # handles[h].inputs[1]

\* C4: while no Result has been passed to free_mesh_result more than once,
\* the record and the buffers of every Result released once are freed
\* exactly once, those of a Result not yet released are still allocated and
\* never freed, and no release has faulted.  So once every Result is
\* released, no block of a returned Result is allocated or freed twice.
C4_ReleasedExactlyOnce ==
    (\A h \in DOMAIN handles : handles[h].released <= 1) =>
        /\ ~ub
        /\ \A h \in DOMAIN handles : \A p \in {h} \cup BuffersOf(h) :
              /\ IsHeapPtr(p)
              /\ heap[p].frees = handles[h].released
              /\ heap[p].live = (handles[h].released = 0)

\* every Result returned has been released once; one had both buffers
C4_Witness ==
    /\ pc = "idle"
    /\ DOMAIN handles # {}
    /\ \A h \in DOMAIN handles : handles[h].released = 1
    /\ \E h \in DOMAIN handles : Cardinality(BuffersOf(h)) = 2

\* C5: free_mesh_result(nullptr) -- a call of free_mesh_result that
\* releases no Result -- frees nothing, leaves the heap as it is and does
\* not fault, however often and wherever in the sequence it is called.
C5_FreeNullIsNoOp ==
    [][(nfrees' = nfrees + 1 /\ handles' = handles) => (heap' = heap /\ ub' = ub)]_vars

\* null has been released repeatedly around a call whose Result is held
C5_Witness ==
    /\ nfrees >= 2
    /\ DOMAIN handles # {}
    /\ \A h \in DOMAIN handles : handles[h].released = 0
    /\ ~ub

\* C6: free_mesh_result does not notice that a Result was released before:
\* a second call on the same non-null Result is no no-op, it deletes the
\* record again (a double free), which is undefined behaviour.
C6_SecondReleaseFreesAgain ==
    [][\A h \in DOMAIN handles :
          (/\ h \in DOMAIN handles'
           /\ handles[h].released >= 1
           /\ handles'[h].released = handles[h].released + 1)
          => (heap'[h].frees = heap[h].frees + 1 /\ ub')]_vars

\* a Result released twice: record and both buffers were freed twice
C6_Witness ==
    \E h \in DOMAIN handles :
        /\ handles[h].released = 2
        /\ heap[h].frees = 2
        /\ Cardinality(BuffersOf(h)) = 2
        /\ \A p \in BuffersOf(h) : heap[p].frees = 2

\* the statements of a call that follow b.parse_commandline
AfterParse == {"tetrahedralize", "new_result", "new_points", "new_tetrahedra", "return"}
OptionsAbsent == args.options.null \/ args.options.chars = <<NUL>>

\* C7: once a call has reached option parsing, the parser has been invoked
\* exactly once and before the meshing entry point: with the built-in "pqz"
\* if and only if options is null or the empty string, otherwise with the
\* caller's string as it is.
C7_OptionForwarding ==
    (pc \in AfterParse \/ klog # <<>>) =>
        /\ Len(klog) \in {1, 2}
        /\ klog[1].fn = "parse_commandline"
        /\ Len(klog) = 2 => klog[2].fn = "tetrahedralize"
        /\ pc \in AfterParse \ {"tetrahedralize"} => Len(klog) = 2
        /\ klog[1].origin = "literal" <=> OptionsAbsent
        /\ klog[1].origin = "literal" => klog[1].chars = <<"p", "q", "z", NUL>>
        /\ klog[1].origin # "literal" =>
              klog[1].origin = "caller" /\ klog[1].chars = args.options.chars

\* the kernel has run in a call that was given the empty string
C7_Witness ==
    /\ pc = "new_result"
    /\ ~args.options.null
    /\ args.options.chars = <<NUL>>
    /\ Len(klog) = 2

\* C8: of the caller's points block only elements 0 .. 3N-1 are read, of its
\* facet index block only elements 0 .. 3F-1, and during a call neither
\* block is written.
C8_InputAccess ==
    /\ [](\A a \in reads :
            /\ a[1] \in {args.in_vertices, args.in_faces}
            /\ a[1] = args.in_vertices => a[2] \in 0 .. (3 * args.num_vertices - 1)
            /\ a[1] = args.in_faces => a[2] \in 0 .. (3 * args.num_faces - 1))
    /\ [][pc # "idle" => /\ heap'[InVerticesPtr] = heap[InVerticesPtr]
                         /\ heap'[InFacesPtr] = heap[InFacesPtr]]_vars

\* both blocks have been read to the full for the largest counts
C8_Witness ==
    /\ pc = "parse_commandline"
    /\ args.num_vertices = MaxN
    /\ args.num_faces = MaxF
    /\ Cardinality(reads) = 3 * MaxN + 3 * MaxF

\* element k (from 0) of a caller's block
CallerElem(p, k) == heap[p].data[k + 1]

\* C9: when the meshing entry point is about to be invoked, the input
\* container holds the N points of the caller in order and F facets, facet j
\* with one polygon of the 3 vertices facet_indices[3j .. 3j+2] in order and
\* no holes; there are no facet markers, holes or regions and numbering
\* starts at 0.
C9_InputContainer ==
    pc = "tetrahedralize" =>
        /\ in.firstnumber = 0
        /\ in.numberofpoints = args.num_vertices
        /\ WsAt(in.pointlist).data =
              [k \in 1..(3 * args.num_vertices) |-> CallerElem(args.in_vertices, k - 1)]
        /\ in.numberoffacets = args.num_faces
        /\ Len(WsAt(in.facetlist).data) = args.num_faces
        /\ \A j \in 0..(args.num_faces - 1) :
              LET f == WsAt(in.facetlist).data[j + 1]
              IN /\ f.numberofpolygons = 1
                 /\ Len(WsAt(f.polygonlist).data) = 1
                 /\ WsAt(f.polygonlist).data[1].numberofvertices = 3
                 /\ WsAt(WsAt(f.polygonlist).data[1].vertexlist).data =
                       <<CallerElem(args.in_faces, 3 * j),
                         CallerElem(args.in_faces, 3 * j + 1),
                         CallerElem(args.in_faces, 3 * j + 2)>>
                 /\ f.numberofholes = 0
                 /\ f.holelist = NULL
        /\ in.facetmarkerlist = NULL
        /\ in.numberofholes = 0
        /\ in.holelist = NULL
        /\ in.numberofregions = 0
        /\ in.regionlist = NULL

\* the kernel is about to be invoked on the largest input
C9_Witness ==
    /\ pc = "tetrahedralize"
    /\ args.num_vertices = MaxN
    /\ args.num_faces = MaxF

\* the blocks the call in progress, or the last one, allocated and left allocated
LiveBlocksOfCall == {p \in 1..Len(heap) : heap[p].call = ncalls /\ heap[p].live}

\* C10: when a call has returned the null sentinel, every block it
\* allocated is freed: the Kernel Working Set is destroyed and no Result
\* record or output buffer allocated before the fault is left allocated.
C10_FailureFreesEverything ==
    (pc = "idle" /\ ncalls > 0 /\ ret = Failure) =>
        (ws = <<>> /\ LiveBlocksOfCall = {})

====
